---- MODULE Spec2Model ----
(***************************************************************************)
(* Model of the JotForm extension WebSocket backend: the ConnectionManager *)
(* registry (backend/connection_manager.py, duplicated in backend/main.py) *)
(* and the per-connection dispatcher loop websocket_endpoint               *)
(* (backend/main.py).                                                      *)
(*                                                                         *)
(* The specifications share the variables:                                 *)
(*   Spec          the server as shipped: one websocket_endpoint task per  *)
(*                 connection, cooperatively scheduled (asyncio); a step   *)
(*                 of the model is the code a task runs between two        *)
(*                 awaits.                                                 *)
(*   SpecLoop      the loop of one connection, with frames of every kind   *)
(*                 and an advancing clock.                                 *)
(*   SpecPeers     several connections side by side, each client sending   *)
(*                 faulting, unknown and ping frames.                      *)
(*   SpecRegistry  the ConnectionManager driven through its public methods *)
(*                 by arbitrary callers, one broadcast at a time.          *)
(*   SpecActivity  SpecRegistry with fewer connections and an advancing    *)
(*                 clock.                                                  *)
(* Connection handles are numbered in order of arrival.                    *)
(***************************************************************************)
EXTENDS Integers, Sequences, FiniteSets, TLC

\* ------------------------------------------------------------------ bounds
NConn == 1          \* connections of Spec
NReg == 3           \* connections of SpecRegistry
NPeer == 2          \* connections of SpecPeers
NAct == 2           \* connections of SpecActivity
MaxTime == 1        \* last value of the clock

VARIABLES
    active_connections,   \* ConnectionManager.active_connections : list of handles
    connection_metadata,  \* ConnectionManager.connection_metadata : handle -> Session
    admitted,             \* the handles for which connect has returned and disconnect has not been called since
    transport,            \* per connection: state of the socket below the WebSocket object
    pc,                   \* per connection: position of its websocket_endpoint task
    tosend,               \* per connection: envelopes of the current turn not yet written, the head being awaited in send_text
    turn,                 \* per connection: the current turn of its loop: the frame read and the texts handed to send_text since
    owed,                 \* per connection: envelopes handed to send_text minus frames read
    after_bad,            \* per connection: the frame before the current one was not valid JSON
    read_at,              \* per connection: the clock when receive_text returned the current frame
    now,                  \* the clock read by datetime.now()
    caller,               \* the last step of a direct call of a ConnectionManager method, and its outcome
    bcast                 \* the broadcast call: local variables and position

vars == <<active_connections, admitted, connection_metadata, transport, pc, tosend,
          turn, owed, after_bad, read_at, now, caller, bcast>>

\* ------------------------------------------------------- Python / JSON values
None == [t |-> "None"]                 \* Python None
JNull == [t |-> "null"]                \* JSON null
Str(s) == [t |-> "str", v |-> s]       \* a string, in JSON and in Python
Num(s) == [t |-> "num", v |-> s]       \* a number, written with the digits s
JList == [t |-> "list"]                \* a JSON array / Python list
Obj(m) == [t |-> "obj", m |-> m]       \* a JSON object / Python dict with members m

\* json.loads on a value: null becomes None, an object becomes a dict
RECURSIVE FromJson(_)
FromJson(j) ==
    IF j = JNull THEN None
    ELSE IF j.t = "obj" THEN Obj([k \in DOMAIN j.m |-> FromJson(j.m[k])])
    ELSE j

\* json.dumps on a value: None becomes null
RECURSIVE ToJson(_)
ToJson(p) ==
    IF p = None THEN JNull
    ELSE IF p.t = "obj" THEN Obj([k \in DOMAIN p.m |-> ToJson(p.m[k])])
    ELSE p

\* A text frame: its characters either form a JSON document or do not.
TextFrame(doc) == [wellformed |-> TRUE, doc |-> doc]
Garbage == [wellformed |-> FALSE]

\* loads as a decoder that yields None for text that is not JSON instead of
\* raising
loads_lenient(data) ==
    IF data.wellformed THEN [err |-> "", value |-> FromJson(data.doc)]
    ELSE [err |-> "", value |-> None]

\* json.loads(data): the decoded value, or JSONDecodeError
loads(data) ==
    IF data.wellformed THEN [err |-> "", value |-> FromJson(data.doc)]
    ELSE [err |-> "JSONDecodeError"]

\* get that ignores its default and yields an empty string for a missing key
Get_blank(d, key, default) == IF key \in DOMAIN d.m THEN d.m[key] ELSE Str("")

\* dict.get(key, default)
Get(d, key, default) == IF key \in DOMAIN d.m THEN d.m[key] ELSE default

\* str that shows None as nothing
PyStr_blank(x) ==
    IF x = None THEN ""
    ELSE IF x.t \in {"str", "num"} THEN x.v
    ELSE IF x.t = "list" THEN "[]"
    ELSE "{...}"

\* str(x) as used by an f-string
PyStr(x) ==
    IF x = None THEN "None"
    ELSE IF x.t \in {"str", "num"} THEN x.v
    ELSE IF x.t = "list" THEN "[]"
    ELSE "{...}"

\* ------------------------------------------------------------ list helpers
Range(s) == {s[i] : i \in DOMAIN s}

IndexOf(s, x) == CHOOSE i \in DOMAIN s : s[i] = x /\ \A j \in 1..(i - 1) : s[j] # x

\* list.remove(x): drops the first occurrence
ListRemove(s, x) ==
    LET i == IndexOf(s, x)
    IN  SubSeq(s, 1, i - 1) \o SubSeq(s, i + 1, Len(s))

DictSet(d, k, v) == [x \in DOMAIN d \cup {k} |-> IF x = k THEN v ELSE d[x]]
DictDel(d, k) == [x \in DOMAIN d \ {k} |-> d[x]]
EmptyDict == [x \in {} |-> None]

\* ------------------------------------------------- ConnectionManager methods
\* A Session record.
Session(client_id, connected_at, last_activity) ==
    [client_id |-> client_id, connected_at |-> connected_at,
     last_activity |-> last_activity]

\* connect, after `await websocket.accept()` has returned: append and record
\* the metadata; `client_id or f"client_{len(...)}"` with the two clock reads
connect(ac, md, websocket, client_id, t1, t2) ==
    LET ac2 == Append(ac, websocket)
        cid == IF client_id = None \/ client_id = Str("")
               THEN "client_" \o ToString(Len(ac2))
               ELSE client_id.v
    IN  [ac |-> ac2, md |-> DictSet(md, websocket, Session(cid, t1, t2)),
         raised |-> FALSE]

\* disconnect that removes from the list and forgets the `del`
disconnect_keepmeta(ac, md, websocket) ==
    IF websocket \in Range(ac)
    THEN [ac |-> ListRemove(ac, websocket), md |-> md, raised |-> FALSE]
    ELSE [ac |-> ac, md |-> md, raised |-> FALSE]

\* disconnect without the `if websocket in self.active_connections` guard:
\* list.remove of an absent item raises ValueError
disconnect_unguarded(ac, md, websocket) ==
    IF websocket \in Range(ac)
    THEN [ac |-> ListRemove(ac, websocket), md |-> DictDel(md, websocket),
          raised |-> FALSE]
    ELSE [ac |-> ac, md |-> md, raised |-> TRUE]

\* disconnect that resets the whole registry when a registered connection goes
disconnect_all(ac, md, websocket) ==
    IF websocket \in Range(ac)
    THEN [ac |-> << >>, md |-> EmptyDict, raised |-> FALSE]
    ELSE [ac |-> ac, md |-> md, raised |-> FALSE]

\* disconnect that forgets the Session and leaves the connection in the list
disconnect_keeplist(ac, md, websocket) ==
    IF websocket \in Range(ac)
    THEN [ac |-> ac, md |-> DictDel(md, websocket), raised |-> FALSE]
    ELSE [ac |-> ac, md |-> md, raised |-> FALSE]

\* disconnect: guarded list.remove and `del`; `del` of a missing key raises
\* KeyError after the remove has happened
disconnect(ac, md, websocket) ==
    IF websocket \in Range(ac)
    THEN IF websocket \in DOMAIN md
         THEN [ac |-> ListRemove(ac, websocket), md |-> DictDel(md, websocket),
               raised |-> FALSE]
         ELSE [ac |-> ListRemove(ac, websocket), md |-> md, raised |-> TRUE]
    ELSE [ac |-> ac, md |-> md, raised |-> FALSE]

\* send_personal_message whose except clause only logs
send_personal_message_noevict(ac, md, websocket, ok, t) ==
    [ac |-> ac,
     md |-> IF ok /\ websocket \in DOMAIN md
            THEN [md EXCEPT ![websocket].last_activity = t]
            ELSE md,
     raised |-> FALSE]

\* send_personal_message once `await websocket.send_text` has completed (ok)
\* or raised (~ok)
send_personal_message(ac, md, websocket, ok, t) ==
    IF ok
    THEN [ac |-> ac,
          md |-> IF websocket \in DOMAIN md
                 THEN [md EXCEPT ![websocket].last_activity = t]
                 ELSE md,
          raised |-> FALSE]
    ELSE disconnect(ac, md, websocket)

\* The clean-up loop of broadcast: disconnect each collected connection, in
\* order; an exception leaves the loop.
RECURSIVE broadcast_cleanup(_, _, _)
broadcast_cleanup(ac, md, disconnected) ==
    IF disconnected = << >> THEN [ac |-> ac, md |-> md, raised |-> FALSE]
    ELSE LET r == disconnect(ac, md, Head(disconnected))
         IN  IF r.raised THEN r ELSE broadcast_cleanup(r.ac, r.md, Tail(disconnected))

\* a loop body that stamps last_activity whether or not the write succeeded
broadcast_touch_always(md, connection, ok, t) ==
    IF connection \in DOMAIN md
    THEN [md EXCEPT ![connection].last_activity = t]
    ELSE md

\* The loop body of broadcast after its send_text: a successful write stamps
\* last_activity, a failed one is collected for the clean-up.
broadcast_touch(md, connection, ok, t) ==
    IF ok /\ connection \in DOMAIN md
    THEN [md EXCEPT ![connection].last_activity = t]
    ELSE md

\* a sweep that logs a failed write and does not collect the connection
broadcast_collect_drop(disconnected, connection, ok) == disconnected

broadcast_collect(disconnected, connection, ok) ==
    IF ok THEN disconnected ELSE Append(disconnected, connection)

\* The list iterator of `for connection in self.active_connections`: it holds
\* the number i of items already fetched and reads the live list.
IterHasNext(ac, i) == i < Len(ac)
IterNext(ac, i) == ac[i + 1]

\* len(manager.active_connections), as reported by GET / and GET /health
ActiveCount == Len(active_connections)

\* ----------------------------------------------------------- the transport
\* "new": handshake not done; "open": reads and writes work; "broken": a
\* transport error, writes fail; "closed": the peer has closed.
\* an accept whose failure is swallowed
AcceptOk_always(c) == TRUE

\* websocket.accept() returns only on a socket whose handshake is still to do
AcceptOk(c) == transport[c] = "new"
\* websocket.send_text(...) returns iff the socket is open
WriteOk(c) == transport[c] = "open"

\* ------------------------------------------------ AutomationSequenceGenerator
get_form_creation_sequence ==
    [t |-> "doc", sequenceId |-> "form-creation-v1", name |-> "Create New Form",
     steps |-> <<
        [action |-> "navigate", url |-> "https://www.jotform.com/myforms",
         description |-> "Navigate to Jotform workspace", delay |-> 2000],
        [action |-> "click",
         selector |-> "[data-testid='create-button'], .create-button, button[aria-label*='Create']",
         description |-> "Click Create button", delay |-> 1000],
        [action |-> "click",
         selector |-> "[data-testid='form-button'], .form-button, button[aria-label*='Form']",
         description |-> "Click Form button", delay |-> 1000],
        [action |-> "click",
         selector |-> "[data-testid='start-from-scratch'], .start-from-scratch, button[aria-label*='Start from scratch']",
         description |-> "Click Start from scratch", delay |-> 1000],
        [action |-> "click",
         selector |-> "[data-testid='classic-form'], .classic-form, button[aria-label*='Classic form']",
         description |-> "Click Classic form", delay |-> 500],
        [action |-> "click",
         selector |-> "[data-testid='close-modal'], .close-modal, button[aria-label*='Close']",
         description |-> "Close modal dialog", delay |-> 1000] >>]

get_form_building_sequence ==
    [t |-> "doc", sequenceId |-> "form-building-v1", name |-> "Build Form Elements",
     steps |-> <<
        [action |-> "wait", description |-> "Wait for page to initialize",
         delay |-> 1000],
        [action |-> "click",
         selector |-> "[data-testid='heading-form'], .heading-form, .form-element[data-type='control_head']",
         description |-> "Click on heading form element", delay |-> 1000],
        [action |-> "click",
         selector |-> "[data-testid='settings-button'], .settings-button, button[aria-label*='Settings']",
         description |-> "Click settings button", delay |-> 1000],
        [action |-> "type",
         selector |-> "[data-testid='text-field'], .text-field, input[type='text'], textarea",
         text |-> "Course Registration",
         description |-> "Enter form title text", delay |-> 500],
        [action |-> "click",
         selector |-> "[data-testid='settings-close'], .settings-close, button[aria-label*='Close']",
         description |-> "Close settings menu", delay |-> 500] >>]

\* The characters of the strings the clients of the model send as sequence_type.
Chars(s) ==
    CASE s = "xyz" -> <<"x", "y", "z">>
      [] s = "my_flow" -> <<"m", "y", "_", "f", "l", "o", "w">>
      [] s = "form_creation" -> <<"f", "o", "r", "m", "_", "c", "r", "e", "a", "t", "i", "o", "n">>
      [] s = "form_building" -> <<"f", "o", "r", "m", "_", "b", "u", "i", "l", "d", "i", "n", "g">>
      [] s = "" -> << >>

Lower == <<"a", "b", "c", "d", "e", "f", "g", "h", "i", "j", "k", "l", "m",
           "n", "o", "p", "q", "r", "s", "t", "u", "v", "w", "x", "y", "z">>
Upper == <<"A", "B", "C", "D", "E", "F", "G", "H", "I", "J", "K", "L", "M",
           "N", "O", "P", "Q", "R", "S", "T", "U", "V", "W", "X", "Y", "Z">>
IsLetter(ch) == ch \in Range(Lower) \cup Range(Upper)
ToUpper(ch) == IF ch \in Range(Lower) THEN Upper[IndexOf(Lower, ch)] ELSE ch
ToLower(ch) == IF ch \in Range(Upper) THEN Lower[IndexOf(Upper, ch)] ELSE ch

\* "".join(chars)
RECURSIVE Join(_)
Join(cs) == IF cs = << >> THEN "" ELSE Head(cs) \o Join(Tail(cs))

\* s.replace('_', ' ')
ReplaceUnderscore(cs) == [i \in DOMAIN cs |-> IF cs[i] = "_" THEN " " ELSE cs[i]]

\* s.title(): a letter is upper-cased after a non-letter, lower-cased after a letter
Title(cs) ==
    [i \in DOMAIN cs |->
        IF i = 1 \/ ~IsLetter(cs[i - 1]) THEN ToUpper(cs[i]) ELSE ToLower(cs[i])]

\* a catalog that knows only its two fixed sequences and raises for any other
\* sequence_type
get_custom_sequence_strict(sequence_type) ==
    IF sequence_type = Str("form_creation")
    THEN [err |-> "", value |-> get_form_creation_sequence]
    ELSE IF sequence_type = Str("form_building")
    THEN [err |-> "", value |-> get_form_building_sequence]
    ELSE [err |-> "unknown sequence type"]

\* get_custom_sequence(sequence_type, parameters); a sequence_type that is not
\* a string has no .replace and raises AttributeError
get_custom_sequence(sequence_type) ==
    IF sequence_type = Str("form_creation")
    THEN [err |-> "", value |-> get_form_creation_sequence]
    ELSE IF sequence_type = Str("form_building")
    THEN [err |-> "", value |-> get_form_building_sequence]
    ELSE IF sequence_type.t # "str"
    THEN [err |-> "object has no attribute 'replace'"]
    ELSE [err |-> "",
          value |-> [t |-> "doc",
                     sequenceId |-> "custom-" \o sequence_type.v \o "-v1",
                     name |-> "Custom " \o Join(Title(ReplaceUnderscore(Chars(sequence_type.v)))),
                     steps |-> << >>]]

\* -------------------------------------------------------------- envelopes
\* a timestamp that keeps the date and drops the time of day
IsoFormat_dateonly(ts) == [t |-> "time", at |-> 0]

\* datetime.now().isoformat() at clock value ts
IsoFormat(ts) == [t |-> "time", at |-> ts]

\* type(x).__name__
TypeName(x) ==
    IF x = None THEN "NoneType"
    ELSE CASE x.t = "str" -> "str" [] x.t = "num" -> "int"
           [] x.t = "list" -> "list" [] OTHER -> "dict"

WelcomeEnvelope(ts) ==
    Obj([type |-> Str("connection_established"),
         message |-> Str("Connected to JotForm Extension WebSocket API"),
         timestamp |-> IsoFormat(ts)])

ErrorEnvelope(text, ts) ==
    Obj([type |-> Str("error"), message |-> Str(text), timestamp |-> IsoFormat(ts)])

\* The body of the inner try of websocket_endpoint for a decoded message:
\* the envelopes it passes to send_personal_message, and the exception that
\* ends it ("" when none).
HandleMessage(message, ts) ==
    IF message = None \/ message.t # "obj"
    THEN [sends |-> << >>,
          err |-> "'" \o TypeName(message) \o "' object has no attribute 'get'"]
    ELSE
    LET message_type == Get(message, "type", None)
    IN  IF message_type = Str("get_automation_sequence")
        THEN LET sequence_type == Get(message, "sequence_type", Str("form_creation"))
                 sequence ==
                    IF sequence_type = Str("form_creation")
                    THEN [err |-> "", value |-> get_form_creation_sequence]
                    ELSE IF sequence_type = Str("form_building")
                    THEN [err |-> "", value |-> get_form_building_sequence]
                    ELSE get_custom_sequence(sequence_type)
             IN  IF sequence.err # ""
                 THEN [sends |-> << >>,
                       err |-> "'" \o TypeName(sequence_type) \o "' " \o sequence.err]
                 ELSE [sends |-> << Obj([type |-> Str("automation_sequence_response"),
                                         sequence |-> sequence.value,
                                         timestamp |-> IsoFormat(ts)]) >>,
                       err |-> ""]
        ELSE IF message_type = Str("ping")
        THEN [sends |-> << Obj([type |-> Str("pong"), timestamp |-> IsoFormat(ts)]) >>,
              err |-> ""]
        ELSE IF message_type = Str("automation_status")
        THEN LET status == Get(message, "status", None)
                 sequence_id == Get(message, "sequence_id", None)
             IN  [sends |-> << Obj([type |-> Str("status_acknowledged"),
                                    sequence_id |-> sequence_id,
                                    status |-> status,
                                    timestamp |-> IsoFormat(ts)]) >>,
                  err |-> ""]
        ELSE [sends |-> << ErrorEnvelope("Unknown message type: " \o PyStr(message_type), ts) >>,
              err |-> ""]

\* Dispatch with an `except Exception` that only logs: a fault gets no answer
Dispatch_swallow(data, ts) ==
    LET decoded == loads(data)
    IN  IF decoded.err # ""
        THEN << ErrorEnvelope("Invalid JSON format", ts) >>
        ELSE HandleMessage(decoded.value, ts).sends

\* Dispatch whose `except Exception` reports the bare description
Dispatch_bare(data, ts) ==
    LET decoded == loads(data)
    IN  IF decoded.err # ""
        THEN << ErrorEnvelope("Invalid JSON format", ts) >>
        ELSE LET h == HandleMessage(decoded.value, ts)
             IN  IF h.err # ""
                 THEN h.sends \o << ErrorEnvelope(h.err, ts) >>
                 ELSE h.sends

\* One turn of the `while True` body after receive_text has returned data:
\* the Python dicts passed, in order, to send_personal_message.
Dispatch(data, ts) ==
    LET decoded == loads(data)
    IN  IF decoded.err # ""
        THEN << ErrorEnvelope("Invalid JSON format", ts) >>
        ELSE LET h == HandleMessage(decoded.value, ts)
             IN  IF h.err # ""
                 THEN h.sends \o << ErrorEnvelope("Server error: " \o h.err, ts) >>
                 ELSE h.sends

\* json.dumps(envelope): the text handed to websocket.send_text
dumps(envelope) == ToJson(envelope)

\* ------------------------------------------------------ inbound text frames
Members ==
    { [type |-> Str("ping")],
      [type |-> Str("automation_status"), status |-> Str("running"),
       sequence_id |-> Str("form-creation-v1")],
      [type |-> Str("automation_status")],
      [type |-> Str("automation_status"), status |-> JNull, sequence_id |-> Num("7")],
      [type |-> Str("automation_status"), sequence_id |-> Str("s1")],
      [x \in {} |-> JNull],
      [type |-> JNull],
      [type |-> Str("foo")],
      [type |-> Num("5")],
      [type |-> Str("get_automation_sequence")],
      [type |-> Str("get_automation_sequence"), sequence_type |-> Str("form_building")],
      [type |-> Str("get_automation_sequence"), sequence_type |-> Str("xyz")],
      [type |-> Str("get_automation_sequence"), sequence_type |-> JNull],
      [type |-> Str("get_automation_sequence"), sequence_type |-> Num("3")],
      [type |-> Str("get_automation_sequence"), sequence_type |-> Str("form_creation")],
      [type |-> Str("get_automation_sequence"), sequence_type |-> Str("my_flow"),
       parameters |-> JNull],
      [type |-> Str("ping"), timestamp |-> Num("5"), sequence_type |-> Str("xyz")] }

Frames ==
    {Garbage, TextFrame(JList), TextFrame(JNull)} \cup {TextFrame(Obj(m)) : m \in Members}

\* One frame for each route through the loop body: decode error, fault, the
\* three known types, unknown type.
RouteFrames ==
    { Garbage,
      TextFrame(JList),
      TextFrame(Obj([type |-> Str("ping")])),
      TextFrame(Obj([type |-> Str("automation_status"), status |-> Str("running"),
                     sequence_id |-> Str("form-creation-v1")])),
      TextFrame(Obj([type |-> Str("get_automation_sequence")])),
      TextFrame(Obj([x \in {} |-> JNull])) }

\* What the clients of SpecPeers send: a frame whose handling faults, one of
\* unknown type, and a ping.
PeerFrames ==
    { TextFrame(JList),
      TextFrame(Obj([type |-> Str("foo")])),
      TextFrame(Obj([type |-> Str("ping")])) }

\* The turn that sends the welcome envelope reads no frame.
NoFrame == [wellformed |-> FALSE, welcome |-> TRUE]
Turn(frame, sent) == [frame |-> frame, sent |-> sent]

\* ------------------------------------------------------------ initial state
Conns == DOMAIN transport

NoCall == "none"

\* bcast holds the broadcast call in flight or the one that has just
\* returned.  i, cur, disconnected are the locals of broadcast (iterator
\* position, connection being written, collected failures); before, attempted,
\* delivered, failed, interfered, after record what the call did: the list
\* when it was called, the connections written to, the writes that succeeded
\* and failed, whether another task changed the list during the sweep, and
\* the list when it returned.
BcastIdle ==
    [pc |-> "idle", i |-> 0, cur |-> 0, disconnected |-> << >>,
     before |-> << >>, attempted |-> {}, delivered |-> {}, failed |-> {},
     interfered |-> FALSE, after |-> << >>, raised |-> FALSE]

\* bcast after another call of a ConnectionManager method has left the list
\* as ac2: a sweep in flight notes a change of the list; the record of a
\* broadcast that has returned is dropped.
Observe(ac2) ==
    IF bcast.pc = "sweep"
    THEN IF ac2 # active_connections THEN [bcast EXCEPT !.interfered = TRUE] ELSE bcast
    ELSE BcastIdle

\* The clock of Spec does not advance during a run (what its claims state
\* does not depend on time): it stands at its last value.  SpecLoop lets it
\* advance.
InitN(n, t0) ==
    /\ active_connections = << >>
    /\ connection_metadata = EmptyDict
    /\ admitted = {}
    /\ transport = [c \in 1..n |-> "new"]
    /\ pc = [c \in 1..n |-> "start"]
    /\ tosend = [c \in 1..n |-> << >>]
    /\ turn = [c \in 1..n |-> Turn(NoFrame, << >>)]
    /\ owed = [c \in 1..n |-> 0]
    /\ after_bad = [c \in 1..n |-> FALSE]
    /\ read_at = [c \in 1..n |-> t0]
    /\ now = t0
    /\ caller = NoCall
    /\ bcast = BcastIdle

Init == InitN(NConn, MaxTime)

\* ------------------------------------------------- websocket_endpoint tasks
\* an endpoint that registers the connection and enters its loop without
\* sending the welcome envelope
Connect_nowelcome(c) ==
    /\ pc[c] = "start"
    /\ \A d \in Conns : d < c => pc[d] # "start"
    /\ IF AcceptOk(c)
       THEN LET r == connect(active_connections, connection_metadata, c,
                             None, now, now)
            IN  /\ active_connections' = r.ac
                /\ admitted' = admitted \cup {c}
                /\ connection_metadata' = r.md
                /\ transport' = [transport EXCEPT ![c] = "open"]
                /\ pc' = [pc EXCEPT ![c] = "receiving"]
       ELSE /\ pc' = [pc EXCEPT ![c] = "refused"]
            /\ UNCHANGED <<active_connections, admitted, connection_metadata, transport>>
    /\ UNCHANGED <<tosend, turn, owed, now, after_bad, read_at, caller, bcast>>

\* Up to the first await after accept: manager.connect, then the welcome
\* envelope is handed to send_text.  A failed handshake leaves the endpoint
\* through connect, outside its try.
Connect(c) ==
    /\ pc[c] = "start"
    /\ \A d \in Conns : d < c => pc[d] # "start"
    /\ IF AcceptOk(c)
       THEN \E d \in 0..1 :
              /\ now + d <= MaxTime
              /\ LET r == connect(active_connections, connection_metadata, c,
                                  None, now, now + d)
                     welcome_message == WelcomeEnvelope(now + d)
                 IN  /\ active_connections' = r.ac
                     /\ admitted' = admitted \cup {c}
                     /\ connection_metadata' = r.md
                     /\ tosend' = [tosend EXCEPT ![c] = << welcome_message >>]
                     /\ turn' = [turn EXCEPT ![c] = Turn(NoFrame, << dumps(welcome_message) >>)]
                     /\ owed' = [owed EXCEPT ![c] = @ + 1]
              /\ transport' = [transport EXCEPT ![c] = "open"]
              /\ pc' = [pc EXCEPT ![c] = "sending"]
              /\ now' = now + d
       ELSE /\ pc' = [pc EXCEPT ![c] = "refused"]
            /\ UNCHANGED <<active_connections, admitted, connection_metadata, transport,
                           tosend, turn, owed, now>>
    /\ UNCHANGED <<after_bad, read_at, caller, bcast>>

\* send_text has completed or raised: the rest of send_personal_message, then
\* the next send of the turn or back to receive_text.
SendReturn(c) ==
    /\ pc[c] = "sending"
    /\ LET r == send_personal_message(active_connections, connection_metadata,
                                      c, WriteOk(c), now)
           rest == Tail(tosend[c])
       IN  /\ active_connections' = r.ac
           /\ admitted' = IF WriteOk(c) THEN admitted ELSE admitted \ {c}
           /\ connection_metadata' = r.md
           /\ IF r.raised
              THEN /\ pc' = [pc EXCEPT ![c] = "escaped"]
                   /\ tosend' = [tosend EXCEPT ![c] = << >>]
                   /\ UNCHANGED <<turn, owed>>
              ELSE IF rest # << >>
              THEN /\ pc' = pc
                   /\ tosend' = [tosend EXCEPT ![c] = rest]
                   /\ turn' = [turn EXCEPT ![c].sent = Append(@, dumps(Head(rest)))]
                   /\ owed' = [owed EXCEPT ![c] = @ + 1]
              ELSE /\ pc' = [pc EXCEPT ![c] = "receiving"]
                   /\ tosend' = [tosend EXCEPT ![c] = << >>]
                   /\ UNCHANGED <<turn, owed>>
    /\ UNCHANGED <<transport, after_bad, read_at, now, caller, bcast>>

\* a loop that hands each response to a background task and reads the next
\* frame without awaiting the write
Receive_pipelined(c, data) ==
    /\ pc[c] \in {"receiving", "sending"}
    /\ transport[c] # "new"
    /\ LET sends == Dispatch(data, now)
       IN  /\ tosend' = [tosend EXCEPT ![c] = @ \o sends]
           /\ turn' = [turn EXCEPT ![c] = Turn(data, << dumps(Head(sends)) >>)]
           /\ pc' = [pc EXCEPT ![c] = "sending"]
    /\ after_bad' = [after_bad EXCEPT ![c] = ~turn[c].frame.wellformed /\ turn[c].frame # NoFrame]
    /\ read_at' = [read_at EXCEPT ![c] = now]
    /\ UNCHANGED <<active_connections, admitted, connection_metadata, transport, owed,
                   now, caller, bcast>>

\* receive_text returns a frame: decode, route, hand the response to send_text.
\* The clock may advance between the return of receive_text and the
\* datetime.now() of the branch taken.
Receive(c, data) ==
    /\ pc[c] = "receiving"
    /\ transport[c] # "new"
    /\ \E d \in 0..1 :
         /\ now + d <= MaxTime
         /\ now' = now + d
         /\ LET sends == Dispatch(data, now + d)
            IN  /\ tosend' = [tosend EXCEPT ![c] = sends]
                /\ turn' = [turn EXCEPT ![c] =
                              IF sends = << >> THEN Turn(data, << >>)
                              ELSE Turn(data, << dumps(Head(sends)) >>)]
                /\ owed' = [owed EXCEPT ![c] = IF sends = << >> THEN @ - 1 ELSE @]
                /\ pc' = [pc EXCEPT ![c] = IF sends = << >> THEN "receiving" ELSE "sending"]
    /\ after_bad' = [after_bad EXCEPT ![c] = ~turn[c].frame.wellformed /\ turn[c].frame # NoFrame]
    /\ read_at' = [read_at EXCEPT ![c] = now]
    /\ UNCHANGED <<active_connections, admitted, connection_metadata, transport,
                   caller, bcast>>

\* outer except clauses that only log
ReceiveRaise_nodisconnect(c) ==
    /\ pc[c] = "receiving"
    /\ transport[c] \in {"broken", "closed"}
    /\ pc' = [pc EXCEPT ![c] = "closed"]
    /\ UNCHANGED <<active_connections, admitted, connection_metadata, transport, tosend,
                   turn, owed, after_bad, read_at, now, caller, bcast>>

\* receive_text raises (WebSocketDisconnect or another transport error): both
\* outer except clauses call manager.disconnect and the endpoint returns.
ReceiveRaise(c) ==
    /\ pc[c] = "receiving"
    /\ transport[c] \in {"broken", "closed"}
    /\ LET r == disconnect(active_connections, connection_metadata, c)
       IN  /\ active_connections' = r.ac
           /\ admitted' = admitted \ {c}
           /\ connection_metadata' = r.md
           /\ pc' = [pc EXCEPT ![c] = IF r.raised THEN "escaped" ELSE "closed"]
    /\ UNCHANGED <<transport, tosend, turn, owed, after_bad, read_at, now, caller, bcast>>

\* ---------------------------------------------------------- the environment
\* A transport error on the socket of c (before the handshake: it will fail).
Break(c) ==
    /\ transport[c] \in {"new", "open"}
    /\ transport' = [transport EXCEPT ![c] = "broken"]
    /\ UNCHANGED <<active_connections, admitted, connection_metadata, pc, tosend, turn,
                   owed, after_bad, read_at, now, caller, bcast>>

\* The peer closes an open connection.
PeerClose(c) ==
    /\ transport[c] = "open"
    /\ transport' = [transport EXCEPT ![c] = "closed"]
    /\ UNCHANGED <<active_connections, admitted, connection_metadata, pc, tosend, turn,
                   owed, after_bad, read_at, now, caller, bcast>>

\* Time passes.
Tick ==
    /\ now < MaxTime
    /\ now' = now + 1
    /\ UNCHANGED <<active_connections, admitted, connection_metadata, transport, pc,
                   tosend, turn, owed, after_bad, read_at, caller, bcast>>

\* The server: a task per connection; the clients send frames of every route.
Next ==
    \/ \E c \in Conns : Connect(c)
    \/ \E c \in Conns : SendReturn(c)
    \/ \E c \in Conns : \E data \in RouteFrames : Receive(c, data)
    \/ \E c \in Conns : ReceiveRaise(c)
    \/ \E c \in Conns : Break(c)
    \/ \E c \in Conns : PeerClose(c)

Spec == Init /\ [][Next]_vars

\* The loop of one connection: its client sends any of Frames, and the clock
\* advances from 0.
InitLoop == InitN(1, 0)

NextLoop ==
    \/ \E c \in Conns : Connect(c)
    \/ \E c \in Conns : SendReturn(c)
    \/ \E c \in Conns : \E data \in Frames : Receive(c, data)
    \/ \E c \in Conns : ReceiveRaise(c)
    \/ \E c \in Conns : Break(c)
    \/ \E c \in Conns : PeerClose(c)
    \/ Tick

SpecLoop == InitLoop /\ [][NextLoop]_vars

\* Several connections side by side; the clock stands at its last value.
InitPeers == InitN(NPeer, MaxTime)

NextPeers ==
    \/ \E c \in Conns : Connect(c)
    \/ \E c \in Conns : SendReturn(c)
    \/ \E c \in Conns : \E data \in PeerFrames : Receive(c, data)
    \/ \E c \in Conns : ReceiveRaise(c)
    \/ \E c \in Conns : Break(c)
    \/ \E c \in Conns : PeerClose(c)

SpecPeers == InitPeers /\ [][NextPeers]_vars

\* ------------------------------------ the ConnectionManager called directly
\* Some task calls manager.connect(c): on the next socket to arrive, whose
\* handshake succeeds or fails, or again on a socket connected before.
ApiConnect(c) ==
    /\ \A d \in Conns : d < c => transport[d] # "new"
    /\ IF AcceptOk(c)
       THEN \E d \in 0..1 :
              /\ now + d <= MaxTime
              /\ now' = now + d
              /\ LET r == connect(active_connections, connection_metadata, c,
                                  None, now, now + d)
                 IN  /\ active_connections' = r.ac
                     /\ admitted' = admitted \cup {c}
                     /\ connection_metadata' = r.md
                     /\ bcast' = Observe(r.ac)
                     /\ transport' = [transport EXCEPT ![c] = "open"]
                     /\ caller' = "connect_ok"
       ELSE /\ caller' = "connect_raised"
            /\ bcast' = Observe(active_connections)
            /\ UNCHANGED <<active_connections, admitted, connection_metadata,
                           transport, now>>
    /\ UNCHANGED <<pc, tosend, turn, owed, after_bad, read_at>>

\* Some task calls manager.disconnect(c), for any handle c.
ApiDisconnect(c) ==
    /\ LET r == disconnect(active_connections, connection_metadata, c)
       IN  /\ active_connections' = r.ac
           /\ admitted' = admitted \ {c}
           /\ connection_metadata' = r.md
           /\ bcast' = Observe(r.ac)
           /\ caller' = IF r.raised THEN "disconnect_raised"
                        ELSE IF c \in Range(active_connections) THEN "disconnect_removed"
                        ELSE IF transport[c] = "new" THEN "disconnect_never"
                        ELSE IF transport[c] = "open" THEN "disconnect_again"
                        ELSE "disconnect_absent"
    /\ UNCHANGED <<transport, pc, tosend, turn, owed, after_bad, read_at, now>>

\* The send_text awaited by a manager.send_personal_message(message, c) of
\* some task completes or raises: the rest of the method.
ApiSend(c) ==
    /\ LET r == send_personal_message(active_connections, connection_metadata,
                                      c, WriteOk(c), now)
       IN  /\ active_connections' = r.ac
           /\ admitted' = IF WriteOk(c) THEN admitted ELSE admitted \ {c}
           /\ connection_metadata' = r.md
           /\ bcast' = Observe(r.ac)
           /\ caller' = IF r.raised THEN "send_raised"
                        ELSE IF WriteOk(c) THEN "send_ok"
                        ELSE IF c \in Range(active_connections) THEN "send_evicted"
                        ELSE "send_failed"
    /\ UNCHANGED <<transport, pc, tosend, turn, owed, after_bad, read_at, now>>

\* manager.broadcast(message) is called: up to the first send_text, or to the
\* end when the list is empty.
BroadcastStart ==
    /\ bcast.pc \in {"idle", "done"}
    /\ IF IterHasNext(active_connections, 0)
       THEN LET connection == IterNext(active_connections, 0)
            IN  bcast' = [BcastIdle EXCEPT !.pc = "sweep",
                                           !.i = 1, !.cur = connection,
                                           !.before = active_connections,
                                           !.attempted = {connection}]
       ELSE bcast' = [BcastIdle EXCEPT !.pc = "done"]
    /\ caller' = "broadcast"
    /\ UNCHANGED <<active_connections, admitted, connection_metadata, transport, pc,
                   tosend, turn, owed, after_bad, read_at, now>>

\* The send_text of the sweep has completed or raised: the rest of the loop
\* body, then the next item of the live list, or the clean-up loop.
BroadcastResume ==
    /\ bcast.pc = "sweep"
    /\ LET connection == bcast.cur
           ok == WriteOk(connection)
           md1 == broadcast_touch(connection_metadata, connection, ok, now)
           disconnected == broadcast_collect(bcast.disconnected, connection, ok)
           b1 == [bcast EXCEPT !.disconnected = disconnected,
                               !.delivered = IF ok THEN @ \cup {connection} ELSE @,
                               !.failed = IF ok THEN @ ELSE @ \cup {connection}]
       IN  IF IterHasNext(active_connections, bcast.i)
           THEN LET nxt == IterNext(active_connections, bcast.i)
                IN  /\ bcast' = [b1 EXCEPT !.i = @ + 1, !.cur = nxt,
                                           !.attempted = @ \cup {nxt}]
                    /\ connection_metadata' = md1
                    /\ active_connections' = active_connections
                    /\ admitted' = admitted
           ELSE LET r == broadcast_cleanup(active_connections, md1, disconnected)
                IN  /\ bcast' = [b1 EXCEPT !.pc = "done", !.i = 0, !.cur = 0,
                                           !.disconnected = << >>,
                                           !.after = r.ac, !.raised = r.raised]
                    /\ connection_metadata' = r.md
                    /\ active_connections' = r.ac
                    /\ admitted' = admitted \ Range(disconnected)
    /\ caller' = "broadcast"
    /\ UNCHANGED <<transport, pc, tosend, turn, owed, after_bad, read_at, now>>

\* The registry under its callers.  No endpoint runs (pc, tosend, turn stay as
\* they are); timestamps play no part and the clock stands at its last value.
InitRegistry == InitN(NReg, MaxTime)

NextRegistry ==
    \/ \E c \in Conns : ApiConnect(c)
    \/ \E c \in Conns : ApiDisconnect(c)
    \/ \E c \in Conns : ApiSend(c)
    \/ \E c \in Conns : Break(c)
    \/ BroadcastStart
    \/ BroadcastResume

SpecRegistry == InitRegistry /\ [][NextRegistry]_vars

\* The registry under its callers while the clock advances from 0.
InitActivity == InitN(NAct, 0)

NextActivity ==
    \/ \E c \in Conns : ApiConnect(c)
    \/ \E c \in Conns : ApiDisconnect(c)
    \/ \E c \in Conns : ApiSend(c)
    \/ \E c \in Conns : Break(c)
    \/ BroadcastStart
    \/ BroadcastResume
    \/ Tick

SpecActivity == InitActivity /\ [][NextActivity]_vars

\* =================================================================== claims
\* --------------------------------------------------------- turn vocabulary
IsObjectFrame(data) == data.wellformed /\ data.doc.t = "obj"
HasType(data, name) ==
    /\ IsObjectFrame(data)
    /\ "type" \in DOMAIN data.doc.m
    /\ data.doc.m.type = Str(name)
KnownTypes == {"get_automation_sequence", "ping", "automation_status"}
IsEnvelope(text, name) == text.m.type = Str(name)
Registered(c) ==
    c \in Range(active_connections) /\ c \in DOMAIN connection_metadata
\* The connection of c is open and its loop is running.
StaysOpen(c) ==
    transport[c] = "open" => pc[c] \in {"sending", "receiving"} /\ Registered(c)

\* C1: on every connection the envelopes handed to the transport are the
\* welcome envelope, once and before any frame is read, and then exactly one
\* envelope for each frame read (valid, malformed or faulting): never zero,
\* never more than one.
C1_ExactlyOneResponse ==
    \A c \in Conns :
        /\ Len(tosend[c]) <= 1
        /\ owed[c] = IF pc[c] \in {"start", "refused"} THEN 0 ELSE 1
        /\ pc[c] \in {"start", "refused"} => turn[c] = Turn(NoFrame, << >>)
        /\ pc[c] \in {"sending", "receiving", "closed"} =>
              /\ Len(turn[c].sent) = 1
              /\ IsEnvelope(turn[c].sent[1], "connection_established")
                    <=> turn[c].frame = NoFrame

\* C1 witness: a frame whose handling faults, read after a malformed frame,
\* has been answered.
C1_Witness ==
    \E c \in Conns :
        /\ after_bad[c]
        /\ turn[c].frame = TextFrame(JList)
        /\ Len(turn[c].sent) = 1
        /\ pc[c] = "receiving"

\* C8: a frame that is not valid JSON is answered by exactly one error
\* envelope "Invalid JSON format"; the connection stays open and registered,
\* and a ping read next on it is answered with a pong.
C8_InvalidJsonAnswered ==
    \A c \in Conns :
        /\ turn[c].frame = Garbage =>
              /\ Len(turn[c].sent) = 1
              /\ IsEnvelope(turn[c].sent[1], "error")
              /\ turn[c].sent[1].m.message = Str("Invalid JSON format")
              /\ pc[c] # "escaped"
              /\ StaysOpen(c)
        /\ (after_bad[c] /\ HasType(turn[c].frame, "ping")) =>
              /\ Len(turn[c].sent) = 1
              /\ IsEnvelope(turn[c].sent[1], "pong")
              /\ StaysOpen(c)

\* C8 witness: after a malformed frame a ping was read and answered with a
\* pong, and the session is still registered.
C8_Witness ==
    \E c \in Conns :
        /\ after_bad[c]
        /\ HasType(turn[c].frame, "ping")
        /\ IsEnvelope(turn[c].sent[1], "pong")
        /\ pc[c] = "receiving"
        /\ Registered(c)

\* C9: a decoded envelope whose type is absent or none of the three known
\* types is answered by an error envelope "Unknown message type: <value>",
\* with None for an absent or null type; the loop goes on and the connection
\* stays open.
C9_UnknownTypeAnswered ==
    \A c \in Conns :
        (/\ IsObjectFrame(turn[c].frame)
         /\ \A name \in KnownTypes : ~HasType(turn[c].frame, name)) =>
            LET m == turn[c].frame.doc.m
                shown == IF "type" \notin DOMAIN m THEN "None"
                         ELSE IF m.type = JNull THEN "None"
                         ELSE m.type.v
            IN  /\ Len(turn[c].sent) = 1
                /\ IsEnvelope(turn[c].sent[1], "error")
                /\ turn[c].sent[1].m.message = Str("Unknown message type: " \o shown)
                /\ pc[c] # "escaped"
                /\ StaysOpen(c)

\* C9 witness: an envelope without type was answered with the None
\* placeholder and the loop is waiting for the next frame, still registered.
C9_Witness ==
    \E c \in Conns :
        /\ IsObjectFrame(turn[c].frame)
        /\ "type" \notin DOMAIN turn[c].frame.doc.m
        /\ turn[c].sent[1].m.message = Str("Unknown message type: None")
        /\ pc[c] = "receiving"
        /\ Registered(c)

\* C10: an automation_status envelope is answered by status_acknowledged
\* carrying the request's status and sequence_id, null for a field the
\* request omits.
C10_StatusEchoed ==
    \A c \in Conns :
        HasType(turn[c].frame, "automation_status") =>
            LET m == turn[c].frame.doc.m
            IN  /\ Len(turn[c].sent) = 1
                /\ IsEnvelope(turn[c].sent[1], "status_acknowledged")
                /\ turn[c].sent[1].m.status =
                      (IF "status" \in DOMAIN m THEN m.status ELSE JNull)
                /\ turn[c].sent[1].m.sequence_id =
                      (IF "sequence_id" \in DOMAIN m THEN m.sequence_id ELSE JNull)

\* C10 witness: a request with sequence_id and without status was echoed.
C10_Witness ==
    \E c \in Conns :
        /\ HasType(turn[c].frame, "automation_status")
        /\ DOMAIN turn[c].frame.doc.m = {"type", "sequence_id"}
        /\ turn[c].sent[1].m.status = JNull
        /\ turn[c].sent[1].m.sequence_id = Str("s1")

\* C11: a get_automation_sequence envelope is answered by an
\* automation_sequence_response whose sequence is the catalog's document for
\* sequence_type ("form_creation" when absent): form-creation-v1 with its 6
\* steps, form-building-v1 with its 5 steps, and for any other string t the
\* stub custom-t-v1 named "Custom " + title-cased t with no steps.
TitleCased(t) ==
    CASE t = "xyz" -> "Xyz"
      [] t = "my_flow" -> "My Flow"

C11_SequenceFromCatalog ==
    \A c \in Conns :
        (/\ HasType(turn[c].frame, "get_automation_sequence")
         /\ "sequence_type" \in DOMAIN turn[c].frame.doc.m
               => turn[c].frame.doc.m.sequence_type.t = "str") =>
            LET m == turn[c].frame.doc.m
                t == IF "sequence_type" \in DOMAIN m THEN m.sequence_type.v
                     ELSE "form_creation"
                answer == turn[c].sent[1].m
            IN  /\ Len(turn[c].sent) = 1
                /\ IsEnvelope(turn[c].sent[1], "automation_sequence_response")
                /\ t = "form_creation" =>
                      /\ answer.sequence.sequenceId = "form-creation-v1"
                      /\ answer.sequence.name = "Create New Form"
                      /\ Len(answer.sequence.steps) = 6
                      /\ answer.sequence.steps[1].action = "navigate"
                      /\ answer.sequence.steps[6].description = "Close modal dialog"
                /\ t = "form_building" =>
                      /\ answer.sequence.sequenceId = "form-building-v1"
                      /\ answer.sequence.name = "Build Form Elements"
                      /\ Len(answer.sequence.steps) = 5
                      /\ answer.sequence.steps[1].action = "wait"
                      /\ answer.sequence.steps[4].text = "Course Registration"
                /\ t \notin {"form_creation", "form_building"} =>
                      /\ answer.sequence.sequenceId = "custom-" \o t \o "-v1"
                      /\ answer.sequence.name = "Custom " \o TitleCased(t)
                      /\ answer.sequence.steps = << >>

\* C11 witness: a request for the unlisted sequence_type "my_flow" has been
\* answered with a stub, after which the loop waits for the next frame.
C11_Witness ==
    \E c \in Conns :
        /\ HasType(turn[c].frame, "get_automation_sequence")
        /\ "sequence_type" \in DOMAIN turn[c].frame.doc.m
        /\ turn[c].frame.doc.m.sequence_type = Str("my_flow")
        /\ IsEnvelope(turn[c].sent[1], "automation_sequence_response")
        /\ turn[c].sent[1].m.sequence.sequenceId = "custom-my_flow-v1"
        /\ pc[c] = "receiving"

\* C12: every ping envelope, whatever other fields it carries, is answered
\* by exactly one pong envelope whose timestamp is not earlier than the clock
\* at which the ping was read.
C12_PingAnsweredByPong ==
    \A c \in Conns :
        HasType(turn[c].frame, "ping") =>
            /\ Len(turn[c].sent) = 1
            /\ IsEnvelope(turn[c].sent[1], "pong")
            /\ DOMAIN turn[c].sent[1].m = {"type", "timestamp"}
            /\ turn[c].sent[1].m.timestamp.at >= read_at[c]
            /\ turn[c].sent[1].m.timestamp.at <= now

\* C12 witness: a ping carrying other fields was read after the clock had
\* advanced and has been answered with a later pong.
C12_Witness ==
    \E c \in Conns :
        /\ HasType(turn[c].frame, "ping")
        /\ DOMAIN turn[c].frame.doc.m # {"type"}
        /\ read_at[c] > 0
        /\ IsEnvelope(turn[c].sent[1], "pong")
        /\ turn[c].sent[1].m.timestamp.at >= read_at[c]
        /\ pc[c] = "receiving"

\* C13: on each connection a frame is read only when the response to the
\* frame before it has been written or its write has failed: a connection
\* waiting for a frame has nothing left to send, at most the one response of
\* the current frame is outstanding, the step that hands that response over
\* starts from a connection with nothing outstanding, and the response held by
\* a turn is the response to the frame of that turn; whatever the other
\* connections' loops do in between.
C13_ResponseBeforeNextRead ==
    /\ [](\A c \in Conns :
            /\ pc[c] = "receiving" => tosend[c] = << >>
            /\ tosend[c] # << >> => pc[c] = "sending"
            /\ Len(tosend[c]) <= 1
            /\ turn[c].frame # NoFrame =>
                  turn[c].sent = << dumps(Head(Dispatch(turn[c].frame, now))) >>)
    /\ [][\A c \in Conns :
            (tosend'[c] # tosend[c] /\ tosend'[c] # << >>) =>
               /\ tosend[c] = << >>
               /\ pc[c] \in {"start", "receiving"}]_vars

\* C13 witness: while one connection has a write in flight, another has
\* had its frame answered and waits for its next frame.
C13_Witness ==
    \E c, d \in Conns :
        /\ c # d
        /\ pc[c] = "sending" /\ turn[c].frame = TextFrame(Obj([type |-> Str("foo")]))
        /\ pc[d] = "receiving" /\ HasType(turn[d].frame, "ping")
        /\ IsEnvelope(turn[d].sent[1], "pong")

\* C14: each connection moves only forward through Connecting (0: before
\* connect returns and while the welcome envelope is being written), Open (1:
\* the loop) and Closed (2: the endpoint has returned).  The welcome envelope
\* is handed to the transport by the step that registers the connection, it
\* is the first envelope of the connection, no frame is read before its write
\* has returned, and the loop is entered only from there.
Phase(p, t) ==
    IF p = "start" \/ (p = "sending" /\ t.frame = NoFrame) THEN 0
    ELSE IF p \in {"sending", "receiving"} THEN 1
    ELSE 2

C14_ForwardOnly ==
    [][\A c \in Conns :
         LET before == Phase(pc[c], turn[c])
             after == Phase(pc'[c], turn'[c])
         IN  /\ after >= before
             /\ (pc[c] = "start" /\ pc'[c] \notin {"start", "refused"}) =>
                   /\ after = 0
                   /\ Registered(c)'
                   /\ turn'[c] = Turn(NoFrame, << dumps(WelcomeEnvelope(now')) >>)
                   /\ tosend'[c] = << WelcomeEnvelope(now') >>
             /\ before = 0 => turn'[c].frame = NoFrame
             /\ (before = 0 /\ after = 1) =>
                   /\ pc[c] = "sending"
                   /\ transport[c] # "new"
                   /\ IsEnvelope(turn[c].sent[1], "connection_established")
                   /\ WriteOk(c) => Registered(c)'
             /\ turn'[c].frame # NoFrame => after >= 1]_vars

\* C14 witness: a connection has been opened, has had a ping answered and
\* has then been closed after a transport error.
C14_Witness ==
    \E c \in Conns :
        /\ pc[c] = "closed"
        /\ transport[c] = "broken"
        /\ HasType(turn[c].frame, "ping")

\* C15: the endpoint returns from its loop only when receive_text raises on
\* a transport that the peer has closed or that has failed; it has then
\* called disconnect, so a connection whose loop has ended is in neither
\* active_connections nor connection_metadata; no exception leaves the
\* endpoint except that of a failed handshake.
C15_LoopEndDisconnects ==
    [][\A c \in Conns :
         /\ pc'[c] # "escaped"
         /\ pc'[c] = "closed" =>
               /\ c \notin Range(active_connections')
               /\ c \notin DOMAIN connection_metadata'
               /\ transport'[c] \in {"broken", "closed"}
         /\ (pc[c] # "closed" /\ pc'[c] = "closed") => pc[c] = "receiving"
         /\ ReceiveRaise(c) => pc'[c] = "closed"
         /\ pc'[c] = "refused" => pc[c] \in {"start", "refused"}]_vars

\* C15 witness: the peer has closed a connection right after its welcome;
\* the loop has ended and the connection is no longer registered.
C15_Witness ==
    \E c \in Conns :
        /\ pc[c] = "closed"
        /\ transport[c] = "closed"
        /\ turn[c].frame = NoFrame
        /\ c \notin Range(active_connections)

\* C18: whatever a client does on its connection c (frames of unknown type,
\* frames whose handling faults, a failing transport, closing) and whatever
\* the endpoint does for c, every other connection d keeps its place in the
\* registry and its Session (client_id, connected_at, last_activity), nothing
\* is handed to the transport of d, and the task of d stays where it was
\* (Slice: what belongs to one connection; every step of a connection or of
\* its client changes its Slice); so a connection whose own transport is open
\* stays registered with its loop running.
Slice(c) == <<pc[c], transport[c], tosend[c], turn[c], owed[c]>>

C18_OthersUnaffected ==
    /\ [][\A c \in Conns :
            Slice(c)' # Slice(c) =>
               \A d \in Conns \ {c} :
                  /\ (d \in Range(active_connections)) <=> (d \in Range(active_connections'))
                  /\ (d \in DOMAIN connection_metadata) <=> (d \in DOMAIN connection_metadata')
                  /\ d \in DOMAIN connection_metadata =>
                        connection_metadata'[d] = connection_metadata[d]
                  /\ Slice(d)' = Slice(d)]_vars
    /\ [](\A d \in Conns :
            transport[d] = "open" =>
               /\ Registered(d)
               /\ pc[d] \in {"sending", "receiving"}
               /\ HasType(turn[d].frame, "ping") => IsEnvelope(turn[d].sent[1], "pong"))

\* C18 witness: one connection has sent a faulting frame, has failed and is
\* gone; another is open and registered and has had its ping answered.
C18_Witness ==
    \E c, d \in Conns :
        /\ c # d
        /\ turn[c].frame = TextFrame(JList)
        /\ transport[c] = "broken"
        /\ pc[c] = "closed"
        /\ transport[d] = "open"
        /\ Registered(d)
        /\ HasType(turn[d].frame, "ping")
        /\ IsEnvelope(turn[d].sent[1], "pong")
        /\ pc[d] = "receiving"

\* C20: no frame is read from, and no envelope is handed to the transport
\* of, a connection that is not in active_connections.
C20_LoopOnlyWhileRegistered ==
    \A c \in Conns :
        pc[c] = "sending" => c \in Range(active_connections)

\* C21: a decoded payload whose handling raises (a JSON value that is not
\* an object, a get_automation_sequence whose sequence_type is null or a
\* number) is answered by exactly one error envelope "Server error: " followed
\* by the description of the fault; the fault stays inside the loop, the
\* connection stays open and registered, and the frame read next is answered.
IsFaultFrame(data) ==
    /\ data.wellformed
    /\ \/ data.doc.t # "obj"
       \/ /\ HasType(data, "get_automation_sequence")
          /\ "sequence_type" \in DOMAIN data.doc.m
          /\ data.doc.m.sequence_type.t # "str"

FaultText(data) ==
    CASE data.doc.t = "list" -> "'list' object has no attribute 'get'"
      [] data.doc.t = "null" -> "'NoneType' object has no attribute 'get'"
      [] data.doc.t = "obj" /\ data.doc.m.sequence_type.t = "null" ->
            "'NoneType' object has no attribute 'replace'"
      [] data.doc.t = "obj" /\ data.doc.m.sequence_type.t = "num" ->
            "'int' object has no attribute 'replace'"

C21_FaultAnsweredInsideLoop ==
    /\ [](\A c \in Conns :
            IsFaultFrame(turn[c].frame) =>
               /\ Len(turn[c].sent) = 1
               /\ IsEnvelope(turn[c].sent[1], "error")
               /\ turn[c].sent[1].m.message =
                     Str("Server error: " \o FaultText(turn[c].frame))
               /\ pc[c] \in {"sending", "receiving", "closed"}
               /\ StaysOpen(c))
    /\ [][\A c \in Conns :
            (/\ IsFaultFrame(turn[c].frame)
             /\ pc[c] = "receiving"
             /\ pc'[c] # "receiving") =>
               IF transport[c] = "open"
               THEN /\ pc'[c] = "sending"
                    /\ Len(turn'[c].sent) = 1
                    /\ Registered(c)'
                    /\ HasType(turn'[c].frame, "ping") =>
                          IsEnvelope(turn'[c].sent[1], "pong")
               ELSE pc'[c] \in {"sending", "closed"}]_vars

\* C21 witness: a get_automation_sequence with a null sequence_type has been
\* answered with the error envelope; the connection is open and registered
\* and its loop waits for the next frame.
C21_Witness ==
    \E c \in Conns :
        /\ HasType(turn[c].frame, "get_automation_sequence")
        /\ IsFaultFrame(turn[c].frame)
        /\ turn[c].frame.doc.m.sequence_type = JNull
        /\ turn[c].sent[1].m.message =
              Str("Server error: 'NoneType' object has no attribute 'replace'")
        /\ pc[c] = "receiving"
        /\ transport[c] = "open"
        /\ Registered(c)

\* --------------------------------------------------------- registry claims
NoDuplicates(q) == \A i, j \in DOMAIN q : q[i] = q[j] => i = j

\* C2: each connection is at most once in active_connections, and the
\* connections in the list are exactly the keys of connection_metadata.
C2_RegistryConsistent ==
    /\ NoDuplicates(active_connections)
    /\ Range(active_connections) = DOMAIN connection_metadata

\* C2 witness: connects, a change of the list during a sweep and a broadcast
\* that evicted a failed session have happened, and sessions remain.
C2_Witness ==
    /\ bcast.pc = "done"
    /\ bcast.failed # {}
    /\ bcast.interfered
    /\ Len(active_connections) >= 1

\* C3: disconnect never raises, and on a connection that is not registered
\* (never registered, or disconnected before) it changes nothing: in every
\* registry state, for every handle, a second call leaves the list and the
\* metadata as the first call left them.
C3_DisconnectIdempotent ==
    /\ caller # "disconnect_raised"
    /\ \A c \in Conns :
         LET r1 == disconnect(active_connections, connection_metadata, c)
             r2 == disconnect(r1.ac, r1.md, c)
         IN  /\ ~r1.raised /\ ~r2.raised
             /\ r2.ac = r1.ac /\ r2.md = r1.md
             /\ c \notin Range(r1.ac) /\ c \notin DOMAIN r1.md
             /\ c \notin Range(active_connections) =>
                   r1.ac = active_connections /\ r1.md = connection_metadata

\* C3 witness: disconnect was called on a connection that an earlier
\* disconnect had removed.
C3_Witness ==
    /\ caller = "disconnect_again"
    /\ active_connections # << >>

\* C4: when a broadcast returns, it has attempted a write to every session
\* that was active when it was called (stated for the sessions that are
\* still registered at the return: one disconnected during the sweep has no
\* session left to write to).
C4_BroadcastReachesAll ==
    bcast.pc = "done" =>
        \A c \in Range(bcast.before) :
            c \in Range(bcast.after) => c \in bcast.attempted

\* C5: a broadcast during which no other task changes the list writes to
\* every session of the list, delivers to all whose write does not fail,
\* and returns with the list minus exactly the failed ones (F = bcast.failed).
C5_BroadcastEvictsExactlyFailed ==
    (bcast.pc = "done" /\ ~bcast.interfered) =>
        /\ ~bcast.raised
        /\ bcast.attempted = Range(bcast.before)
        /\ bcast.delivered = Range(bcast.before) \ bcast.failed
        /\ bcast.after = SelectSeq(bcast.before, LAMBDA c : c \notin bcast.failed)
        /\ Len(bcast.after) = Len(bcast.before) - Cardinality(bcast.failed)

\* C5 witness: three sessions, one broken: two deliveries, count down by one.
C5_Witness ==
    /\ bcast.pc = "done"
    /\ ~bcast.interfered
    /\ Len(bcast.before) = 3
    /\ Cardinality(bcast.failed) = 1
    /\ Cardinality(bcast.delivered) = 2
    /\ Len(bcast.after) = 2

\* C6: a send_personal_message whose write fails does not raise and removes
\* the Session of that connection and no other; the other Sessions and the
\* order of the list are unchanged.
C6_SendFailureEvictsOnlyThatSession ==
    [][\A c \in Conns :
         (ApiSend(c) /\ ~WriteOk(c)) =>
            /\ caller' # "send_raised"
            /\ active_connections' =
                  SelectSeq(active_connections, LAMBDA d : d # c)
            /\ DOMAIN connection_metadata' = DOMAIN connection_metadata \ {c}
            /\ \A d \in DOMAIN connection_metadata' :
                  connection_metadata'[d] = connection_metadata[d]]_vars

\* C6 witness: a failed send has evicted its session and others remain.
C6_Witness ==
    /\ caller = "send_evicted"
    /\ Len(active_connections) >= 2

\* C7: a connect whose handshake fails leaves the endpoint at once: nothing
\* is registered, no welcome envelope is handed to the transport, no frame
\* is read, and this stays so.
C7_FailedHandshakeNeverRegisters ==
    [][\A c \in Conns :
         /\ (pc[c] = "start" /\ pc'[c] # "start" /\ transport[c] # "new") =>
               /\ pc'[c] = "refused"
               /\ active_connections' = active_connections
               /\ connection_metadata' = connection_metadata
         /\ pc'[c] = "refused" =>
               /\ c \notin Range(active_connections')
               /\ c \notin DOMAIN connection_metadata'
               /\ turn'[c] = Turn(NoFrame, << >>)
               /\ tosend'[c] = << >>]_vars

\* C7 witness: the handshake of a connection has failed.
C7_Witness ==
    \E c \in Conns :
        /\ pc[c] = "refused"
        /\ transport[c] = "broken"
        /\ c \notin Range(active_connections)

\* C16: no two Sessions registered at the same time carry the same fallback
\* client_id (connect is always called without client_id here).
C16_FallbackIdsUnique ==
    \A c, d \in DOMAIN connection_metadata :
        c # d => connection_metadata[c].client_id # connection_metadata[d].client_id

\* C17: a successful connect adds one Session under a handle that had none
\* and leaves the others as they were, and the active count is at all times
\* the number of handles admitted by connect and not disconnected since.
C17_CountIsAdmittedMinusDisconnected ==
    /\ [](/\ ActiveCount = Cardinality(admitted)
          /\ Range(active_connections) = admitted
          /\ Cardinality(DOMAIN connection_metadata) = ActiveCount)
    /\ [][\A c \in Conns :
            (c \notin admitted /\ c \in admitted') =>
               /\ c \notin DOMAIN connection_metadata
               /\ DOMAIN connection_metadata' = DOMAIN connection_metadata \cup {c}
               /\ \A d \in DOMAIN connection_metadata :
                     connection_metadata'[d] = connection_metadata[d]
               /\ ActiveCount' = ActiveCount + 1]_vars

\* C17 witness: three connections have been admitted and one of them
\* disconnected before the last connect; the count is two.
C17_Witness ==
    /\ caller = "connect_ok"
    /\ \A c \in 1..3 : transport[c] # "new"
    /\ ActiveCount = 2
    /\ Cardinality(admitted) = 2

\* C19: from the call of a broadcast to the end of its sweep the list is as
\* it was when the broadcast was called.
C19_ListStableDuringSweep ==
    bcast.pc = "sweep" => active_connections = bcast.before

\* C22: connect stamps connected_at and last_activity with the clock; after
\* that connected_at never changes, and last_activity is set to the current
\* time by every write to the connection that succeeds, through
\* send_personal_message or through broadcast, and changes in no other step;
\* a write that fails leaves it alone; at all times
\* connected_at <= last_activity <= now.
C22_LastActivityTracksWrites ==
    /\ [](\A c \in DOMAIN connection_metadata :
            /\ connection_metadata[c].connected_at <= connection_metadata[c].last_activity
            /\ connection_metadata[c].last_activity <= now)
    /\ [][\A c \in Conns :
            /\ (c \notin DOMAIN connection_metadata /\ c \in DOMAIN connection_metadata') =>
                  /\ connection_metadata'[c].connected_at = now
                  /\ connection_metadata'[c].last_activity = now'
            /\ (c \in DOMAIN connection_metadata /\ c \in DOMAIN connection_metadata') =>
                  /\ connection_metadata'[c].connected_at = connection_metadata[c].connected_at
                  /\ connection_metadata'[c].client_id = connection_metadata[c].client_id
                  /\ connection_metadata'[c].last_activity # connection_metadata[c].last_activity =>
                        /\ WriteOk(c)
                        /\ connection_metadata'[c].last_activity = now
                        /\ ApiSend(c) \/ (BroadcastResume /\ bcast.cur = c)
                  /\ ~WriteOk(c) => connection_metadata'[c] = connection_metadata[c]
            /\ (c \in DOMAIN connection_metadata /\ WriteOk(c)
                  /\ (ApiSend(c) \/ (BroadcastResume /\ bcast.cur = c))) =>
                  /\ c \in DOMAIN connection_metadata'
                  /\ connection_metadata'[c].last_activity = now]_vars

\* C22 witness: a broadcast has delivered to a session admitted earlier,
\* whose last_activity is now later than its connected_at, and has evicted
\* another whose write failed.
C22_Witness ==
    /\ bcast.pc = "done"
    /\ bcast.failed # {}
    /\ \E c \in bcast.delivered :
          /\ c \in DOMAIN connection_metadata
          /\ connection_metadata[c].connected_at = 0
          /\ connection_metadata[c].last_activity = now
          /\ now > 0
====
